---- MODULE Spec2Model ----
(***************************************************************************)
(* Model of the stock-prediction repository:                               *)
(*   src/data/data.py          Data Fetcher and Feature Pipeline           *)
(*   src/QNN/train-QNN-fast.py Model Assembler, Trainer, save / load       *)
(*   src/server/backend.py     Inference Service (image routes)            *)
(*                                                                         *)
(* Numbers are exact rationals <<n, d>> with d > 0; <<n, 0>> is a value no *)
(* arithmetic defines (NaN, or the result of a division by zero).          *)
(***************************************************************************)
EXTENDS Integers, Sequences, FiniteSets, TLC

VARIABLES
    call,       \* data.py: the function applied last and its arguments
    ret,        \* data.py: what that application returned or raised
    fs,         \* the files the three programs share
    trainer,    \* train-QNN-fast.py: locals of train_qnn and of the script
    server,     \* backend.py: module-level state of the service
    response    \* backend.py: the request handled last and its response

vars == <<call, ret, fs, trainer, server, response>>

(***************************************************************************)
(* Bounds of the model.                                                    *)
(***************************************************************************)
MaxRows == 31
MaxEpochs == 3
MaxSeed == 1

(***************************************************************************)
(* Numbers.                                                                *)
(***************************************************************************)
Num(k) == <<k, 1>>
NaN == <<0, 0>>
IsNaN(v) == v[2] = 0

Abs(k) == IF k < 0 THEN 0 - k ELSE k

RECURSIVE GCD(_, _)
GCD(a, b) == IF b = 0 THEN a ELSE GCD(b, a % b)

\* lowest terms, positive denominator
Norm(n, d) == LET g == GCD(Abs(n), Abs(d))
                  s == IF d < 0 THEN 0 - 1 ELSE 1
              IN  IF d = 0 THEN <<n, 0>> ELSE <<s * (n \div g), s * (d \div g)>>

RAdd(a, b) == IF IsNaN(a) \/ IsNaN(b) THEN NaN
              ELSE Norm(a[1] * b[2] + b[1] * a[2], a[2] * b[2])

RSub(a, b) == IF IsNaN(a) \/ IsNaN(b) THEN NaN
              ELSE Norm(a[1] * b[2] - b[1] * a[2], a[2] * b[2])

RMul(a, b) == IF IsNaN(a) \/ IsNaN(b) THEN NaN
              ELSE Norm(a[1] * b[1], a[2] * b[2])

\* a / b; a zero divisor leaves no defined value
RDiv(a, b) == IF IsNaN(a) \/ IsNaN(b) THEN NaN
              ELSE Norm(a[1] * b[2], a[2] * b[1])

RLe(a, b) == a[1] * b[2] <= b[1] * a[2]
REq(a, b) == a[1] * b[2] = b[1] * a[2]

\* the sum, the least and the greatest of s[lo..hi], by halves
RECURSIVE RSum(_, _, _)
RSum(s, lo, hi) ==
    IF lo > hi THEN Num(0)
    ELSE IF lo = hi THEN s[lo]
    ELSE RAdd(RSum(s, lo, (lo + hi) \div 2), RSum(s, ((lo + hi) \div 2) + 1, hi))

RECURSIVE RMin(_, _, _)
RMin(s, lo, hi) ==
    IF lo = hi THEN s[lo]
    ELSE LET a == RMin(s, lo, (lo + hi) \div 2)
             b == RMin(s, ((lo + hi) \div 2) + 1, hi)
         IN  IF RLe(a, b) THEN a ELSE b

RECURSIVE RMax(_, _, _)
RMax(s, lo, hi) ==
    IF lo = hi THEN s[lo]
    ELSE LET a == RMax(s, lo, (lo + hi) \div 2)
             b == RMax(s, ((lo + hi) \div 2) + 1, hi)
         IN  IF RLe(a, b) THEN b ELSE a

Reverse(s) == [i \in 1..Len(s) |-> s[Len(s) + 1 - i]]

(***************************************************************************)
(* What a call does: it returns a value or raises an exception.            *)
(***************************************************************************)
Return(v) == [kind |-> "return", value |-> v]
Raise(exc, args) == [kind |-> "raise", exc |-> exc, args |-> args]

(***************************************************************************)
(* Tables (pandas DataFrame): the column labels in order, and the rows in  *)
(* order, each with its index label and one cell per column.  The index is *)
(* not a column.                                                           *)
(***************************************************************************)
Frame(columns, rows) == [columns |-> columns, rows |-> rows]
Range(s) == {s[i] : i \in 1..Len(s)}

\* the sequence s with every element computed (an array, not a rule)
Array(s) == SelectSeq(s, LAMBDA v : TRUE)

Column(df, c) == Array([i \in 1..Len(df.rows) |-> df.rows[i].cells[c]])

\* df[c] = values: a new label is appended to the columns
SetColumn(df, c, values) ==
    Frame(IF c \in Range(df.columns) THEN df.columns ELSE Append(df.columns, c),
          Array([i \in 1..Len(df.rows) |->
                    [df.rows[i] EXCEPT !.cells = (c :> values[i]) @@ df.rows[i].cells]]))

\* DataFrame.dropna(): the rows with no missing cell, in order
dropna(df) ==
    Frame(df.columns,
          SelectSeq(df.rows, LAMBDA r : \A c \in DOMAIN r.cells : ~IsNaN(r.cells[c])))

\* DataFrame.sort_index(): ascending by index label
sort_index(df) ==
    Frame(df.columns, SortSeq(df.rows, LAMBDA a, b : a.index < b.index))

(***************************************************************************)
(* src/data/data.py: fetch_stock_data                                      *)
(***************************************************************************)
OHLCV == <<"open", "high", "low", "close", "volume">>

\* str.capitalize(): first character upper case, the rest lower case
Capitalize(s) == CASE s = "daily" -> "Daily"
                   [] s = "DAILY" -> "Daily"
                   [] s = "weekly" -> "Weekly"

\* f'Time Series ({interval.capitalize()})'
SeriesKey(interval) == CASE Capitalize(interval) = "Daily" -> "Time Series (Daily)"
                         [] Capitalize(interval) = "Weekly" -> "Time Series (Weekly)"

\* the query sent to the provider
RequestParams(symbol, interval, outputsize) ==
    [function |-> IF interval = "daily" THEN "TIME_SERIES_DAILY"
                  ELSE "TIME_SERIES_INTRADAY",
     symbol |-> symbol,
     interval |-> "1d",
     outputsize |-> outputsize]

\* the key whose absence the function tests before it reads the series
CheckedKey(interval) == "Time Series (Daily)"

\* dict.get('Note', 'Unknown error')
NoteOf(data) == IF "Note" \in DOMAIN data THEN data["Note"] ELSE "Unknown error"

\* DataFrame.from_dict(orient='index'), then the five columns renamed by position
FromSeries(series) ==
    Frame(OHLCV,
          Array([i \in 1..Len(series) |->
                    [index |-> series[i].date,
                     cells |-> [c \in Range(OHLCV) |->
                                  series[i].values[CHOOSE k \in 1..Len(OHLCV) :
                                                      OHLCV[k] = c]]]]))

\* data is the provider's JSON answer to the one request the function sends
fetch_stock_data(symbol, interval, data) ==
    IF CheckedKey(interval) \notin DOMAIN data
    THEN Raise("Exception", <<"Error fetching data for", symbol, NoteOf(data)>>)
    ELSE IF SeriesKey(interval) \notin DOMAIN data
    THEN Raise("KeyError", <<SeriesKey(interval)>>)
    ELSE Return(sort_index(FromSeries(data[SeriesKey(interval)])))

(***************************************************************************)
(* src/data/data.py: preprocess_data                                       *)
(***************************************************************************)
\* Series.pct_change(): x[i] / x[i-1] - 1, undefined in the first row
pct_change(x) ==
    Array([i \in 1..Len(x) |-> IF i = 1 THEN NaN ELSE RSub(RDiv(x[i], x[i - 1]), Num(1))])

\* a window counted one row too long
rolling_mean_late(x, window) ==
    Array([i \in 1..Len(x) |-> IF i <= window THEN NaN
                               ELSE RDiv(RSum(x, i - window + 1, i), Num(window))])

\* Series.rolling(window).mean(): undefined until the window is full
rolling_mean(x, window) ==
    Array([i \in 1..Len(x) |-> IF i < window THEN NaN
                               ELSE RDiv(RSum(x, i - window + 1, i), Num(window))])

scaled_columns == <<"open", "high", "low", "close", "volume", "daily_return",
                    "5_day_moving_avg", "30_day_moving_avg">>

\* a scaler that divides by the range as it is
keep_zeros_in_scale(range) == range

\* MinMaxScaler: a zero range is replaced by 1 before the division
handle_zeros_in_scale(range) == IF range[1] = 0 THEN Num(1) ELSE range

\* MinMaxScaler(feature_range=(0, 1)).fit_transform on one column
MinMaxColumn(x) ==
    LET data_min == RMin(x, 1, Len(x))
        data_max == RMax(x, 1, Len(x))
        scale_ == RDiv(Num(1), handle_zeros_in_scale(RSub(data_max, data_min)))
        min_ == RSub(Num(0), RMul(data_min, scale_))
    IN  Array([i \in 1..Len(x) |-> RAdd(RMul(x[i], scale_), min_)])

\* df[scaled_columns] = the scaled columns, all assigned at once
ScaleColumns(df) ==
    LET scaled == Array([k \in 1..Len(scaled_columns) |->
                            MinMaxColumn(Column(df, scaled_columns[k]))])
        Position(c) == CHOOSE k \in 1..Len(scaled_columns) : scaled_columns[k] = c
    IN  Frame(df.columns,
              Array([i \in 1..Len(df.rows) |->
                        [df.rows[i] EXCEPT !.cells =
                            [c \in DOMAIN df.rows[i].cells |->
                                IF c \in Range(scaled_columns)
                                THEN scaled[Position(c)][i]
                                ELSE df.rows[i].cells[c]]]]))

\* fit_transform refuses an array with no rows
fit_transform(df) ==
    IF Len(df.rows) = 0
    THEN Raise("ValueError", <<"Found array with 0 sample(s)">>)
    ELSE Return(ScaleColumns(df))

\* the first dropna, the three columns derived from close, the second dropna
Features(df) ==
    LET d0 == dropna(df)
        close == Column(d0, "close")
        daily_return == pct_change(close)
        moving_avg_5 == rolling_mean(close, 5)
        moving_avg_30 == rolling_mean(close, 30)
    IN  dropna(Frame(d0.columns
                       \o <<"daily_return", "5_day_moving_avg", "30_day_moving_avg">>,
                     Array([i \in 1..Len(d0.rows) |->
                               [d0.rows[i] EXCEPT !.cells =
                                   ("daily_return" :> daily_return[i])
                                   @@ ("5_day_moving_avg" :> moving_avg_5[i])
                                   @@ ("30_day_moving_avg" :> moving_avg_30[i])
                                   @@ d0.rows[i].cells]])))

preprocess_data(df, scale) ==
    IF scale THEN fit_transform(Features(df)) ELSE Return(Features(df))

(***************************************************************************)
(* Inputs: price histories of n trading days, day i dated i.               *)
(***************************************************************************)
CloseKinds == {"flat", "ramp", "zigzag", "saw"}

Close(kind, i) == CASE kind = "flat" -> 5
                    [] kind = "ramp" -> i
                    [] kind = "zigzag" -> 3 + (i % 2)
                    [] kind = "saw" -> 1 + 2 * (i % 3)

Volume(kind, i) == IF kind \in {"flat", "ramp"} THEN 1000 ELSE 100 * (1 + (i % 4))

Max2(a, b) == IF a < b THEN b ELSE a
Min2(a, b) == IF a < b THEN a ELSE b

\* one day of the provider's series: open, high, low, close, volume
Day(kind, i) ==
    LET close == Close(kind, i)
        open == IF i = 1 THEN close ELSE Close(kind, i - 1)
    IN  [date |-> i,
         values |-> <<Num(open), Num(Max2(open, close) + 1), Num(Min2(open, close) - 1),
                      Num(close), Num(Volume(kind, i))>>]

Chronological(n, kind) == [i \in 1..n |-> Day(kind, i)]

\* the provider lists the newest day first
ProviderSeries(n, kind) == Reverse(Chronological(n, kind))

\* a table as a caller of preprocess_data may hold it: row miss, if any, has no close
InputFrame(n, kind, miss) ==
    LET df == FromSeries(Chronological(n, kind))
    IN  IF miss \in 1..n
        THEN Frame(df.columns, [df.rows EXCEPT ![miss].cells["close"] = NaN])
        ELSE df

MissAt == {0, 1, 12}
Missing(n, miss) == IF miss \in 1..n THEN 1 ELSE 0

Symbols == {"AAPL", "IBM"}
Intervals == {"daily", "DAILY", "weekly"}
TopLevelKeys == {"Meta Data", "Note", "Time Series (Daily)", "Time Series (Weekly)"}
FetchRows == {0, 2, MaxRows}

\* a JSON answer of the provider with the given top-level keys
Response(keys, n, kind) ==
    [k \in keys |-> IF k \in {"Time Series (Daily)", "Time Series (Weekly)"}
                    THEN ProviderSeries(n, kind)
                    ELSE IF k = "Note" THEN "call frequency exceeded"
                    ELSE "information"]

(***************************************************************************)
(* The initial state: nothing called, no file written, no program started. *)
(***************************************************************************)
NoFile == [exists |-> FALSE]

Init ==
    /\ call = [fn |-> "none"]
    /\ ret = [kind |-> "none"]
    /\ fs = [model |-> NoFile, csv |-> NoFile]
    /\ trainer = [pc |-> "idle"]
    /\ server = [state |-> "Unloaded"]
    /\ response = [route |-> "none"]

(***************************************************************************)
(* data.py as a library: one of its two functions applied to an argument.  *)
(* The argument is drawn at the start; the call then returns or raises.    *)
(***************************************************************************)
FetchCalls ==
    {[fn |-> "fetch_stock_data", symbol |-> symbol, interval |-> interval,
      data |-> Response(keys, n, kind), requests |-> <<>>] :
        symbol \in Symbols, interval \in Intervals, keys \in SUBSET TopLevelKeys,
        n \in FetchRows, kind \in CloseKinds}

PreprocessCalls ==
    {[fn |-> "preprocess_data", n |-> n, missing |-> Missing(n, miss),
      df |-> InputFrame(n, kind, miss), scale |-> scale] :
        n \in 0..MaxRows, kind \in CloseKinds, miss \in MissAt, scale \in BOOLEAN}

InitData ==
    /\ call \in FetchCalls \cup PreprocessCalls
    /\ ret = [kind |-> "none"]
    /\ fs = [model |-> NoFile, csv |-> NoFile]
    /\ trainer = [pc |-> "idle"]
    /\ server = [state |-> "Unloaded"]
    /\ response = [route |-> "none"]

CallFetchStockData ==
    /\ call.fn = "fetch_stock_data"
    /\ ret.kind = "none"
    /\ call' = [call EXCEPT !.requests =
                    Append(@, RequestParams(call.symbol, call.interval, "full"))]
    /\ ret' = fetch_stock_data(call.symbol, call.interval, call.data)
    /\ UNCHANGED <<fs, trainer, server, response>>

CallPreprocessData ==
    /\ call.fn = "preprocess_data"
    /\ ret.kind = "none"
    /\ ret' = preprocess_data(call.df, call.scale)
    /\ UNCHANGED <<call, fs, trainer, server, response>>

NextData == CallFetchStockData \/ CallPreprocessData

SpecData == InitData /\ [][NextData]_vars

(***************************************************************************)
(* Model Assembler (create_qnn, TorchConnector, Sequential), as both the   *)
(* training script and the service build it.  A module is its named        *)
(* parameters, each a tensor with a shape and its values in row order; a   *)
(* parameter name is the path of its dotted components.  Parameter values  *)
(* are integers: the simulator and the optimizer are outside the           *)
(* repository and only the flow of values through the code is modelled.    *)
(***************************************************************************)
Tensor(shape, data) == [shape |-> shape, data |-> data]

\* RealAmplitudes(num_qubits, reps).num_parameters
num_parameters(num_qubits, reps) == num_qubits * (reps + 1)

\* train-QNN-fast.py create_qnn: inputs from the feature map, weights from the ansatz
create_qnn(num_qubits) ==
    [num_qubits |-> num_qubits,
     feature_map |-> [name |-> "fm_theta", size |-> num_parameters(num_qubits, 1)],
     ansatz |-> [name |-> "ansatz_theta", size |-> num_parameters(num_qubits, 1)]]

\* a service assembled with two repetitions in each circuit
server_create_qnn_deep(num_qubits) ==
    [num_qubits |-> num_qubits,
     feature_map |-> [name |-> "fm_theta", size |-> num_parameters(num_qubits, 2)],
     ansatz |-> [name |-> "ansatz_theta", size |-> num_parameters(num_qubits, 2)]]

\* backend.py create_qnn
server_create_qnn(num_qubits) ==
    [num_qubits |-> num_qubits,
     feature_map |-> [name |-> "fm_theta", size |-> num_parameters(num_qubits, 1)],
     ansatz |-> [name |-> "ansatz_theta", size |-> num_parameters(num_qubits, 1)]]

\* the values a fresh parameter of the given size gets from the draw seed
Fresh(size, seed) == [i \in 1..size |-> seed]

\* TorchConnector(qnn): one parameter, the ansatz weights
TorchConnector(qnn, seed) ==
    [num_inputs |-> qnn.feature_map.size,
     params |-> << <<(<<"weight">>), Tensor(<<qnn.ansatz.size>>,
                                           Fresh(qnn.ansatz.size, seed))>> >>]

\* nn.Linear(in_features, out_features)
Linear(in_features, out_features, seed) ==
    [num_inputs |-> in_features,
     params |-> << <<(<<"weight">>), Tensor(<<out_features, in_features>>,
                                           Fresh(out_features * in_features, seed))>>,
                   <<(<<"bias">>), Tensor(<<out_features>>, Fresh(out_features, seed))>> >>]

\* the parameters of a child module, each name prefixed by the child's position
Prefixed(position, params) ==
    [i \in 1..Len(params) |-> <<(<<ToString(position)>>) \o params[i][1], params[i][2]>>]

\* nn.Sequential(first, second)
Sequential(first, second) ==
    [num_inputs |-> first.num_inputs,
     params |-> Prefixed(0, first.params) \o Prefixed(1, second.params)]

\* model.state_dict(): the (name, tensor) entries in registration order
state_dict(model) == model.params

Keys(sd) == {sd[i][1] : i \in 1..Len(sd)}
Entry(sd, k) == sd[CHOOSE i \in 1..Len(sd) : sd[i][1] = k][2]

\* model.load_state_dict(sd), strict: the names and the shapes must be the model's
load_state_dict(model, sd) ==
    IF Keys(sd) # Keys(model.params)
    THEN Raise("RuntimeError", <<"Missing or unexpected key(s) in state_dict">>)
    ELSE IF \E k \in Keys(sd) : Entry(sd, k).shape # Entry(model.params, k).shape
    THEN Raise("RuntimeError", <<"size mismatch">>)
    ELSE Return([model EXCEPT !.params =
                    [i \in 1..Len(model.params) |->
                        <<model.params[i][1], Entry(sd, model.params[i][1])>>]])

\* torch.save(obj, filename) and torch.load(filename)
torch_save(obj) == [exists |-> TRUE, content |-> obj]
torch_load(file) == file.content

(***************************************************************************)
(* src/QNN/train-QNN-fast.py: train_qnn, statement by statement, then      *)
(* save_qnn_model and load_qnn_model.                                      *)
(***************************************************************************)
RECURSIVE SumSeq(_, _)
SumSeq(x, k) == IF k = 0 THEN 0 ELSE x[k] + SumSeq(x, k - 1)

RECURSIVE SumParams(_, _)
SumParams(params, k) ==
    IF k = 0 THEN 0
    ELSE SumSeq(params[k][2].data, Len(params[k][2].data)) + SumParams(params, k - 1)

Sign(k) == IF k > 0 THEN 1 ELSE IF k < 0 THEN 0 - 1 ELSE 0

\* model(X): one prediction per row; a row must have the width the circuit takes
Predict(model, X) ==
    IF \E i \in 1..Len(X) : Len(X[i]) # model.num_inputs
    THEN Raise("QiskitMachineLearningError", <<"Input data has incorrect shape">>)
    ELSE Return([i \in 1..Len(X) |->
                    SumParams(model.params, Len(model.params)) + SumSeq(X[i], Len(X[i]))])

\* nn.MSELoss()(predictions, y)
MSELoss(predictions, y) ==
    SumSeq([i \in 1..Len(y) |-> (predictions[i] - y[i]) * (predictions[i] - y[i])],
           Len(y)) \div Len(y)

\* the gradient loss.backward() adds to every parameter element
Gradient(predictions, y) ==
    2 * SumSeq([i \in 1..Len(y) |-> predictions[i] - y[i]], Len(y))

\* optimizer.step(): every parameter element moves against its gradient
Stepped(model, grad) ==
    [model EXCEPT !.params =
        [i \in 1..Len(model.params) |->
            <<model.params[i][1],
              [model.params[i][2] EXCEPT !.data =
                  [j \in 1..Len(model.params[i][2].data) |->
                      model.params[i][2].data[j] - Sign(grad)]]>>]]

\* the feature list of the script: the width of a training row
features == <<"open", "high", "low", "close", "volume", "daily_return",
              "5_day_moving_avg", "30_day_moving_avg">>

Datasets ==
    {[X |-> <<[c \in 1..Len(features) |-> IF c = 4 THEN 1 ELSE 0],
              [c \in 1..Len(features) |-> IF c = 1 THEN 1 ELSE 0]>>,
      y |-> <<1, 0>>],
     [X |-> <<[c \in 1..Len(features) |-> 0]>>,
      y |-> <<3>>]}

\* the model train_qnn assembles
TrainerModel(num_qubits, seed) ==
    Sequential(TorchConnector(create_qnn(num_qubits), seed), Linear(1, 1, seed + 1))

\* for epoch in range(epochs): the statement that runs next
LoopHead(epoch, epochs) == IF epoch < epochs THEN "zero_grad" ELSE "return"

TrainStart ==
    /\ trainer.pc = "idle"
    /\ server.state = "Unloaded"
    /\ \E epochs \in 0..MaxEpochs, seed \in 0..MaxSeed, d \in Datasets :
          trainer' = [pc |-> LoopHead(0, epochs),
                      epochs |-> epochs,
                      epoch |-> 0,
                      model |-> TrainerModel(4, seed),
                      X |-> d.X,
                      y |-> d.y,
                      grad |-> 0,
                      predictions |-> <<>>,
                      loss |-> 0,
                      losses |-> <<>>,
                      steps |-> <<>>,
                      updated |-> <<>>,
                      loaded |-> [kind |-> "none"]]
    /\ UNCHANGED <<call, ret, fs, server, response>>

ZeroGrad ==
    /\ trainer.pc = "zero_grad"
    /\ trainer' = [trainer EXCEPT !.pc = "forward", !.grad = 0,
                                  !.steps = Append(@, "zero_grad")]
    /\ UNCHANGED <<call, ret, fs, server, response>>

Forward ==
    /\ trainer.pc = "forward"
    /\ LET out == Predict(trainer.model, trainer.X) IN
       trainer' = IF out.kind = "raise"
                  THEN [trainer EXCEPT !.pc = "raised"]
                  ELSE [trainer EXCEPT !.pc = "loss", !.predictions = out.value,
                                       !.steps = Append(@, "forward")]
    /\ UNCHANGED <<call, ret, fs, server, response>>

ComputeLoss ==
    /\ trainer.pc = "loss"
    /\ trainer' = [trainer EXCEPT !.pc = "backward",
                                  !.loss = MSELoss(trainer.predictions, trainer.y),
                                  !.steps = Append(@, "loss")]
    /\ UNCHANGED <<call, ret, fs, server, response>>

Backward ==
    /\ trainer.pc = "backward"
    /\ trainer' = [trainer EXCEPT !.pc = "step",
                                  !.grad = @ + Gradient(trainer.predictions, trainer.y),
                                  !.steps = Append(@, "backward")]
    /\ UNCHANGED <<call, ret, fs, server, response>>

OptimizerStep ==
    /\ trainer.pc = "step"
    /\ trainer' = [trainer EXCEPT !.pc = "append",
                                  !.model = Stepped(trainer.model, trainer.grad),
                                  !.updated = Append(@, trainer.model),
                                  !.steps = Append(@, "step")]
    /\ UNCHANGED <<call, ret, fs, server, response>>

\* the loss appended is read again from the updated model
AppendLossAfterUpdate ==
    /\ trainer.pc = "append"
    /\ trainer' = [trainer EXCEPT
                       !.pc = LoopHead(trainer.epoch + 1, trainer.epochs),
                       !.epoch = @ + 1,
                       !.losses = Append(@, MSELoss(Predict(trainer.model, trainer.X).value,
                                                    trainer.y)),
                       !.steps = Append(@, "append")]
    /\ UNCHANGED <<call, ret, fs, server, response>>

AppendLoss ==
    /\ trainer.pc = "append"
    /\ trainer' = [trainer EXCEPT !.pc = LoopHead(trainer.epoch + 1, trainer.epochs),
                                  !.epoch = @ + 1,
                                  !.losses = Append(@, trainer.loss),
                                  !.steps = Append(@, "append")]
    /\ UNCHANGED <<call, ret, fs, server, response>>

\* return model, losses
TrainReturn ==
    /\ trainer.pc = "return"
    /\ trainer' = [trainer EXCEPT !.pc = "trained"]
    /\ UNCHANGED <<call, ret, fs, server, response>>

save_qnn_model(model) == torch_save(state_dict(model))

SaveQnnModel ==
    /\ trainer.pc = "trained"
    /\ fs' = [fs EXCEPT !.model = save_qnn_model(trainer.model)]
    /\ trainer' = [trainer EXCEPT !.pc = "saved"]
    /\ UNCHANGED <<call, ret, server, response>>

\* the bare connector is what receives the saved parameters
load_qnn_model(qnn, seed, file) ==
    load_state_dict(TorchConnector(qnn, seed), torch_load(file))

LoadQnnModel ==
    /\ trainer.pc = "saved"
    /\ trainer.loaded.kind = "none"
    /\ \E seed \in 0..MaxSeed :
          trainer' = [trainer EXCEPT !.loaded = load_qnn_model(create_qnn(4), seed, fs.model)]
    /\ UNCHANGED <<call, ret, fs, server, response>>

\* the script ends and its objects are gone; the file stays
TrainerExit ==
    /\ trainer.pc \in {"saved", "raised"}
    /\ trainer' = [pc |-> "idle"]
    /\ UNCHANGED <<call, ret, fs, server, response>>

TrainerNext ==
    \/ TrainStart \/ ZeroGrad \/ Forward \/ ComputeLoss \/ Backward \/ OptimizerStep
    \/ AppendLoss \/ TrainReturn \/ SaveQnnModel \/ LoadQnnModel \/ TrainerExit

(***************************************************************************)
(* CSV files: a header line and the data lines, cell by cell.              *)
(***************************************************************************)
\* DataFrame.to_csv(path): the unnamed index is written first, under an empty header
to_csv(df) ==
    [exists |-> TRUE,
     header |-> <<"">> \o df.columns,
     lines |-> [i \in 1..Len(df.rows) |->
                  <<Num(df.rows[i].index)>>
                  \o [k \in 1..Len(df.columns) |-> df.rows[i].cells[df.columns[k]]]]]

\* the label read_csv gives the column at position k
ReadLabel(header, k) ==
    IF header[k] = "" THEN IF k = 1 THEN "Unnamed: 0" ELSE "Unnamed" ELSE header[k]

\* pd.read_csv(file): every header cell is a column, the index is 0, 1, 2, ...
read_csv(file) ==
    IF ~file.exists
    THEN Raise("FileNotFoundError", <<"No such file or directory">>)
    ELSE IF Len(file.header) = 0
    THEN Raise("EmptyDataError", <<"No columns to parse from file">>)
    ELSE Return(Frame([k \in 1..Len(file.header) |-> ReadLabel(file.header, k)],
                      [i \in 1..Len(file.lines) |->
                          [index |-> i - 1,
                           cells |-> [c \in {ReadLabel(file.header, k) :
                                                k \in 1..Len(file.header)} |->
                                        file.lines[i][CHOOSE k \in 1..Len(file.header) :
                                                         ReadLabel(file.header, k) = c]]]]))

(***************************************************************************)
(* src/data/data.py: get_stock, the data script.                           *)
(***************************************************************************)
\* what the provider answers while the script or the service asks it
ServiceResponses ==
    {Response(keys, n, kind) :
        keys \in {{"Note"}, {"Meta Data", "Time Series (Daily)"}},
        n \in {2, MaxRows}, kind \in {"ramp", "zigzag"}}

\* the file get_stock leaves: written only when the fetch and the pipeline return
get_stock(old, data) ==
    LET df == fetch_stock_data("AAPL", "daily", data) IN
    IF df.kind = "raise" THEN old
    ELSE LET df_preprocessed == preprocess_data(df.value, TRUE) IN
         IF df_preprocessed.kind = "raise" THEN old
         ELSE to_csv(df_preprocessed.value)

GetStock ==
    /\ trainer.pc = "idle"
    /\ server.state = "Unloaded"
    /\ \E data \in ServiceResponses : fs' = [fs EXCEPT !.csv = get_stock(fs.csv, data)]
    /\ UNCHANGED <<call, ret, trainer, server, response>>

(***************************************************************************)
(* src/server/backend.py: the model built and loaded when the module is    *)
(* imported, and the three routes.  A handler runs to its response before  *)
(* the next request is taken.                                              *)
(***************************************************************************)
\* qnn = create_qnn(num_qubits=4); Sequential(TorchConnector(qnn), Linear(1, 1))
ServerModel(seed) ==
    Sequential(TorchConnector(server_create_qnn(4), seed), Linear(1, 1, seed + 1))

\* a load that does not test for the file first
LoadUnguarded(model, file) ==
    LET out == IF file.exists THEN load_state_dict(model, torch_load(file))
               ELSE Raise("FileNotFoundError", <<"No such file or directory">>)
    IN  IF out.kind = "raise" THEN [state |-> "Failed"]
        ELSE [state |-> "Loaded", model |-> out.value]

\* the module-level load: the file is read when it exists, else the model stays as built
LoadAtImport(model, file) ==
    IF file.exists
    THEN LET out == load_state_dict(model, torch_load(file)) IN
         IF out.kind = "raise" THEN [state |-> "Failed"]
         ELSE [state |-> "Loaded", model |-> out.value]
    ELSE [state |-> "Missing", model |-> model]

Startup ==
    /\ server.state = "Unloaded"
    /\ trainer.pc = "idle"
    /\ \E seed \in 0..MaxSeed : server' = LoadAtImport(ServerModel(seed), fs.model)
    /\ UNCHANGED <<call, ret, fs, trainer, response>>

Serving == server.state \in {"Loaded", "Missing"}

\* jsonify(body), status
Json(body, status) == [status |-> status, mimetype |-> "application/json", body |-> body]

\* the bytes of the rendered chart
create_graph(df, x_column, y_column, title) ==
    IF x_column \notin Range(df.columns) THEN Raise("KeyError", <<x_column>>)
    ELSE IF y_column \notin Range(df.columns) THEN Raise("KeyError", <<y_column>>)
    ELSE Return(<<"png", title>>)

\* send_file(image, mimetype='image/png')
send_file(image) == [status |-> 200, mimetype |-> "image/png", body |-> image]

\* the exception classes the handlers can meet; all derive from Exception
ExceptionClasses == {"Exception", "KeyError", "ValueError", "RuntimeError",
                     "FileNotFoundError", "EmptyDataError",
                     "QiskitMachineLearningError"}

\* a route that catches ValueError only
CatchValueError(out) ==
    IF out.kind = "return" THEN out.value
    ELSE IF out.exc = "ValueError" THEN Json(<<"error">> \o out.args, 500)
    ELSE [status |-> 0, mimetype |-> "none", body |-> <<"escaped", out.exc>>]

\* try: ... except Exception as e: return jsonify({"error": str(e)}), 500
CatchAtRoute(out) ==
    IF out.kind = "return" THEN out.value
    ELSE IF out.exc \in ExceptionClasses THEN Json(<<"error">> \o out.args, 500)
    ELSE [status |-> 0, mimetype |-> "none", body |-> <<"escaped", out.exc>>]

\* what a handler did: the calls it made in order, and how its body ended
Did(calls, out) == [calls |-> calls, out |-> out]

\* the feature list of predict_image
server_features == <<"open", "high", "low", "close", "volume", "daily_return",
                     "5_day_moving_avg", "30_day_moving_avg">>

\* torch.tensor(df[features].values, dtype=float32): a cell rounded to an integer
ToTensor(df, columns) ==
    [i \in 1..Len(df.rows) |->
        [k \in 1..Len(columns) |->
            df.rows[i].cells[columns[k]][1] \div df.rows[i].cells[columns[k]][2]]]

\* the body of predict_image; files is <<>> or holds the uploaded file
predict_image(files, model) ==
    IF files = <<>>
    THEN Did(<<>>, Return(Json(<<"error", "No file uploaded.">>, 400)))
    ELSE LET df == read_csv(files[1]) IN
    IF df.kind = "raise" THEN Did(<<"read_csv">>, df)
    ELSE IF \E k \in 1..Len(server_features) :
                server_features[k] \notin Range(df.value.columns)
    THEN Did(<<"read_csv", "getitem">>,
             Raise("KeyError",
                   <<server_features[CHOOSE k \in 1..Len(server_features) :
                                        server_features[k] \notin Range(df.value.columns)]>>))
    ELSE LET predictions == Predict(model, ToTensor(df.value, server_features)) IN
    IF predictions.kind = "raise" THEN Did(<<"read_csv", "getitem", "model">>, predictions)
    ELSE LET with == SetColumn(df.value, "predictions",
                               [j \in 1..Len(predictions.value) |->
                                   Num(predictions.value[j])])
             graph_image == create_graph(with, "index", "predictions",
                                         "Predicted Stock Prices")
         IN  IF graph_image.kind = "raise"
             THEN Did(<<"read_csv", "getitem", "model", "create_graph">>, graph_image)
             ELSE Did(<<"read_csv", "getitem", "model", "create_graph", "send_file">>,
                      Return(send_file(graph_image.value)))

\* request.args.get('ticker', default=None, type=str): <<>> stands for None
ArgsGet(args, key) == IF key \in DOMAIN args THEN <<args[key]>> ELSE <<>>

\* the ticker is refused only when the parameter is absent
IsNone(ticker) == ticker = <<>>

\* not ticker: None and the empty string
Falsy(ticker) == ticker = <<>> \/ ticker = <<"">>

\* the body of fetch_stock_image; data is the provider's answer, if it is asked
fetch_stock_image(args, data) ==
    LET ticker == ArgsGet(args, "ticker") IN
    IF Falsy(ticker)
    THEN Did(<<>>, Return(Json(<<"error", "Ticker symbol is required.">>, 400)))
    ELSE LET df == fetch_stock_data(ticker[1], "daily", data) IN
    IF df.kind = "raise" THEN Did(<<"fetch_stock_data">>, df)
    ELSE LET df_preprocessed == preprocess_data(df.value, TRUE) IN
    IF df_preprocessed.kind = "raise"
    THEN Did(<<"fetch_stock_data", "preprocess_data">>, df_preprocessed)
    ELSE LET graph_image == create_graph(df_preprocessed.value, "index", "close",
                                         "Stock Prices")
         IN  IF graph_image.kind = "raise"
             THEN Did(<<"fetch_stock_data", "preprocess_data", "create_graph">>,
                      graph_image)
             ELSE Did(<<"fetch_stock_data", "preprocess_data", "create_graph",
                        "send_file">>,
                      Return(send_file(graph_image.value)))

\* the body of default_stock_image; file is AAPL_preprocessed_data.csv
default_stock_image(file) ==
    LET df == read_csv(file) IN
    IF df.kind = "raise" THEN Did(<<"read_csv">>, df)
    ELSE LET graph_image == create_graph(df.value, "index", "close",
                                         "Default Stock Prices (AAPL)")
         IN  IF graph_image.kind = "raise"
             THEN Did(<<"read_csv", "create_graph">>, graph_image)
             ELSE Did(<<"read_csv", "create_graph", "send_file">>,
                      Return(send_file(graph_image.value)))

\* uploads: tables of two rows under the given header, an empty file, or nothing
UploadFile(header) ==
    [exists |-> TRUE, header |-> header,
     lines |-> [i \in 1..2 |-> [k \in 1..Len(header) |-> Num(i + k)]]]

UploadHeaders ==
    {<<>>,
     <<"index">> \o server_features,
     <<"">> \o server_features,
     <<"index">> \o SelectSeq(server_features, LAMBDA c : c # "volume"),
     <<"index", "open", "close">>}

Uploads(csv) ==
    {<<>>} \cup {<<UploadFile(h)>> : h \in UploadHeaders}
           \cup (IF csv.exists THEN {<<csv>>} ELSE {})

UploadedColumns(files) ==
    IF files = <<>> THEN <<"no file">> ELSE files[1].header

Tickers == {<<>>, <<"ticker", "">>, <<"ticker", "AAPL">>}
Args(t) == IF t = <<>> THEN <<>> ELSE (t[1] :> t[2])

\* the response record kept of the request handled last
Handled(route, request, did) ==
    [route |-> route, request |-> request, calls |-> did.calls,
     raised |-> did.out.kind = "raise", result |-> CatchAtRoute(did.out)]

PredictImage ==
    /\ Serving
    /\ \E files \in Uploads(fs.csv) :
          response' = Handled("predict_image", UploadedColumns(files),
                              predict_image(files, server.model))
    /\ UNCHANGED <<call, ret, fs, trainer, server>>

FetchStockImage ==
    /\ Serving
    /\ \E t \in Tickers, data \in ServiceResponses :
          response' = Handled("fetch_stock_image", ArgsGet(Args(t), "ticker"),
                              fetch_stock_image(Args(t), data))
    /\ UNCHANGED <<call, ret, fs, trainer, server>>

DefaultStockImage ==
    /\ Serving
    /\ response' = Handled("default_stock_image",
                           IF fs.csv.exists THEN fs.csv.header ELSE <<"no file">>,
                           default_stock_image(fs.csv))
    /\ UNCHANGED <<call, ret, fs, trainer, server>>

ServerNext == Startup \/ PredictImage \/ FetchStockImage \/ DefaultStockImage

Next == GetStock \/ TrainerNext \/ ServerNext

Spec == Init /\ [][Next]_vars

(***************************************************************************)
(* Claims about data.py, checked under SpecData.                           *)
(***************************************************************************)
PreprocessReturned ==
    call.fn = "preprocess_data" /\ ret.kind = "return"

Ascending(rows) == \A i \in 1..Len(rows) - 1 : rows[i].index < rows[i + 1].index

\* C1 as stated: a table of n >= 30 rows with no missing value comes back from
\* preprocess_data with exactly n - 30 rows.
C1_Original ==
    (call.fn = "preprocess_data" /\ ret.kind # "none"
        /\ call.n >= 30 /\ call.missing = 0)
    => (ret.kind = "return" /\ Len(ret.value.rows) = call.n - 30)

\* C1 amended: a table of n >= 30 rows with no missing value and positive closes
\* comes back from preprocess_data with exactly n - 29 rows, the rows dated 30..n:
\* the first row, whose return is undefined, is one of the 29 that lack a full
\* 30-row window.
C1_RowCount ==
    (call.fn = "preprocess_data" /\ ret.kind # "none"
        /\ call.n >= 30 /\ call.missing = 0)
    => /\ ret.kind = "return"
       /\ Len(ret.value.rows) = call.n - 29
       /\ \A i \in 1..Len(ret.value.rows) : ret.value.rows[i].index = 29 + i

C1_Witness ==
    /\ PreprocessReturned
    /\ call.n = 30 /\ call.missing = 0
    /\ Len(ret.value.rows) = 1

\* C6 as stated: for every interval, fetch_stock_data sends one request, raises
\* the fetch error with the provider's note when the answer lacks the series key
\* of that interval, and otherwise returns the table in ascending date order.
C6_Original ==
    (call.fn = "fetch_stock_data" /\ ret.kind # "none")
    => /\ Len(call.requests) = 1
       /\ IF SeriesKey(call.interval) \notin DOMAIN call.data
          THEN ret = Raise("Exception",
                           <<"Error fetching data for", call.symbol, NoteOf(call.data)>>)
          ELSE ret.kind = "return" /\ Ascending(ret.value.rows)

IsZero(v) == ~IsNaN(v) /\ v[1] = 0
IsOne(v) == ~IsNaN(v) /\ v[1] = v[2]
InUnit(v) == ~IsNaN(v) /\ 0 <= v[1] /\ v[1] <= v[2]
Constant(x) == \A i, j \in 1..Len(x) : REq(x[i], x[j])

\* C8 as stated: after scaling, a column that is constant over the retained rows
\* holds no defined value (a division by zero), and every other column has
\* minimum 0 and maximum 1.
C8_Original ==
    (PreprocessReturned /\ call.scale)
    => \A k \in 1..Len(scaled_columns) :
          LET before == Column(Features(call.df), scaled_columns[k])
              after == Column(ret.value, scaled_columns[k])
          IN  IF Constant(before)
              THEN \A i \in 1..Len(after) : IsNaN(after[i])
              ELSE /\ \A i \in 1..Len(after) : InUnit(after[i])
                   /\ \E i \in 1..Len(after) : IsZero(after[i])
                   /\ \E i \in 1..Len(after) : IsOne(after[i])

\* C8 amended: preprocess_data with scale=True returns whenever a row is retained;
\* every value of the 8 scaled columns is then in [0,1], a column that is not
\* constant over the retained rows has minimum 0 and maximum 1, and a constant
\* column is all 0 (its zero range is replaced by 1, nothing is divided by zero).
C8_Scaled ==
    (call.fn = "preprocess_data" /\ ret.kind # "none" /\ call.scale
        /\ Len(Features(call.df).rows) >= 1)
    => /\ ret.kind = "return"
       /\ \A k \in 1..Len(scaled_columns) :
             LET before == Column(Features(call.df), scaled_columns[k])
                 after == Column(ret.value, scaled_columns[k])
             IN  /\ Len(after) = Len(before)
                 /\ \A i \in 1..Len(after) : InUnit(after[i])
                 /\ IF Constant(before)
                    THEN \A i \in 1..Len(after) : IsZero(after[i])
                    ELSE /\ \E i \in 1..Len(after) : IsZero(after[i])
                         /\ \E i \in 1..Len(after) : IsOne(after[i])

C8_Witness ==
    /\ PreprocessReturned /\ call.scale
    /\ Len(ret.value.rows) >= 2
    /\ Constant(Column(Features(call.df), "volume"))
    /\ ~Constant(Column(Features(call.df), "daily_return"))
    /\ \E i \in 1..Len(ret.value.rows) : IsOne(ret.value.rows[i].cells["daily_return"])

(***************************************************************************)
(* Claims about the trainer and the service, checked under Spec.           *)
(***************************************************************************)
\* C2: a request to the fetch route whose ticker is absent or empty is answered
\* 400 with {"error": "Ticker symbol is required."}, and neither the fetcher nor
\* the pipeline is called for it.
C2_TickerRequired ==
    (response.route = "fetch_stock_image" /\ response.request \in {<<>>, <<"">>})
    => /\ response.result = Json(<<"error", "Ticker symbol is required.">>, 400)
       /\ response.calls = <<>>

C2_Witness ==
    /\ response.route = "fetch_stock_image"
    /\ response.request = <<"">>
    /\ response.result.status = 400

LacksFeature(columns) ==
    \E k \in 1..Len(server_features) : server_features[k] \notin Range(columns)

\* C3: an upload that lacks one of the 8 feature columns is answered 500 with an
\* {"error": text} body, the model is never run on it and no image is sent; and
\* whatever a handler raises is answered 500 by its route, nothing escapes.
C3_SchemaError ==
    /\ (response.route = "predict_image" /\ response.request # <<"no file">>
            /\ LacksFeature(response.request))
        => /\ response.result.status = 500
           /\ response.result.mimetype = "application/json"
           /\ Len(response.result.body) = 2 /\ response.result.body[1] = "error"
           /\ "model" \notin Range(response.calls)
           /\ "send_file" \notin Range(response.calls)
    /\ response.route # "none"
        => /\ response.result.body[1] # "escaped"
           /\ response.raised
               => (response.result.status = 500 /\ response.result.body[1] = "error")

C3_Witness ==
    /\ response.route = "predict_image"
    /\ "volume" \notin Range(response.request) /\ "open" \in Range(response.request)
    /\ response.calls = <<"read_csv", "getitem">>
    /\ response.result = Json(<<"error", "volume">>, 500)

IsPng(result) == result.status = 200 /\ result.mimetype = "image/png"

\* C4 as stated: each image route answers a valid request with a PNG: an upload
\* with the 8 feature columns, a ticker whose fetch and preprocessing succeed,
\* and the default route when the file written by the data script exists.
C4_Original ==
    /\ (response.route = "predict_image" /\ response.request # <<"no file">>
            /\ ~LacksFeature(response.request))
        => IsPng(response.result)
    /\ (response.route = "fetch_stock_image"
            /\ Len(response.calls) >= 3
            /\ SubSeq(response.calls, 1, 3)
                  = <<"fetch_stock_data", "preprocess_data", "create_graph">>)
        => IsPng(response.result)
    /\ (response.route = "default_stock_image" /\ response.request # <<"no file">>)
        => IsPng(response.result)

LoopBody == <<"zero_grad", "forward", "loss", "backward", "step", "append">>

\* C5: train_qnn runs exactly epochs iterations for every epochs >= 0; each runs
\* gradient reset, forward, loss, backward, one update and one append in this
\* order; it never leaves the loop early and never stops inside it; the history
\* returned has epochs entries, the i-th being the loss computed before the i-th
\* update.
C5_Epochs ==
    /\ trainer.pc # "raised"
    /\ trainer.pc # "idle"
        => /\ trainer.epoch <= trainer.epochs
           /\ \A k \in 1..Len(trainer.steps) :
                 trainer.steps[k] = LoopBody[((k - 1) % Len(LoopBody)) + 1]
           /\ Len(trainer.losses) = trainer.epoch
           /\ Len(trainer.steps) >= Len(LoopBody) * trainer.epoch
           /\ Len(trainer.steps) < Len(LoopBody) * (trainer.epoch + 1)
           /\ \A i \in 1..Len(trainer.losses) :
                 trainer.losses[i]
                   = MSELoss(Predict(trainer.updated[i], trainer.X).value, trainer.y)
           /\ trainer.pc \in {"return", "trained", "saved"}
               => /\ trainer.epoch = trainer.epochs
                  /\ Len(trainer.steps) = Len(LoopBody) * trainer.epochs
                  /\ Len(trainer.updated) = trainer.epochs
           /\ trainer.pc \notin {"trained", "saved"} => ENABLED TrainerNext

C5_Witness ==
    /\ trainer.pc = "trained"
    /\ trainer.epochs >= 2
    /\ Len(trainer.losses) = trainer.epochs
    /\ trainer.losses[1] # trainer.losses[2]

\* C7: the load state starts Unloaded; the one step that leaves Unloaded ends in
\* Loaded exactly when the weights file exists and in Missing otherwise; in both
\* the service takes requests on every route; and once it has left Unloaded no
\* step changes the load state or any parameter of the model.
C7_LoadState ==
    /\ server.state = "Unloaded"
    /\ [][(server.state = "Unloaded" /\ server'.state # "Unloaded")
            => server'.state = IF fs.model.exists THEN "Loaded" ELSE "Missing"]_vars
    /\ [][server.state # "Unloaded" => server' = server]_vars
    /\ [](server.state # "Unloaded"
            => /\ Serving
               /\ ENABLED PredictImage
               /\ ENABLED FetchStockImage
               /\ ENABLED DefaultStockImage)

C7_Witness ==
    /\ server.state = "Missing"
    /\ response.route = "predict_image"
    /\ IsPng(response.result)
    /\ \E seed \in 0..MaxSeed : server.model = ServerModel(seed)

\* C9: a weights file saved by the trainer (4 qubits) is accepted by the startup
\* load of the service: both build the same parameter names and shapes, and every
\* parameter of the service then has the value that was saved.
C9_Compatible ==
    /\ \A a, b \in 0..MaxSeed :
          /\ Len(TrainerModel(4, a).params) = Len(ServerModel(b).params)
          /\ \A i \in 1..Len(ServerModel(b).params) :
                /\ TrainerModel(4, a).params[i][1] = ServerModel(b).params[i][1]
                /\ TrainerModel(4, a).params[i][2].shape = ServerModel(b).params[i][2].shape
    /\ (server.state # "Unloaded" /\ fs.model.exists)
        => /\ server.state = "Loaded"
           /\ state_dict(server.model) = torch_load(fs.model)

C9_Witness ==
    /\ server.state = "Loaded"
    /\ fs.model.exists
    /\ \A seed \in 0..MaxSeed : server.model # ServerModel(seed)

\* C10 as stated: load_qnn_model(create_qnn(4), f) on the file save_qnn_model wrote
\* from the trained model returns a model with the saved names, shapes and values.
C10_Original ==
    (trainer.pc = "saved" /\ trainer.loaded.kind # "none")
    => /\ trainer.loaded.kind = "return"
       /\ state_dict(trainer.loaded.value) = state_dict(trainer.model)

====
